---- MODULE Spec2Model ----
(***************************************************************************)
(* Decision core of the Drift-Binance arbitrage bot (src/core/main.py):    *)
(* DriftArbBot.price_callback, _execute_professional_arbitrage,            *)
(* calculate_dynamic_allocation and ArbitrageExecutor.                     *)
(*                                                                         *)
(* Money is held in mills (1/1000 USD).  Venue balances are whole dollars, *)
(* so 45% of a balance and 90% of (balance - first allocation) are whole   *)
(* numbers of mills and the integer arithmetic below is exact.             *)
(*                                                                         *)
(* Each price callback is an asyncio coroutine: the code between two       *)
(* awaits runs atomically, and another callback may run at every await of  *)
(* a venue coroutine (Drift balance fetch, perpetual order placement).     *)
(* One action below is one such atomic block.                              *)
(***************************************************************************)
EXTENDS Integers, Sequences, FiniteSets, TLC

\* ------------------------------------------------------------------ bounds
NumCallbacks == 2      \* price callbacks that can be in flight at once
MaxOpportunities == 3  \* opportunities the detector reports in one run
MaxActive == 3         \* active orders handed to the allocation on its own

\* ------------------------------------------------------- program constants
max_concurrent_orders == 2
min_trade_size == 50
max_trade_size == 200
first_order_pct == 45
second_order_pct == 90
fee_buffer_permille == 1001

Procs == 1..NumCallbacks

Mills(dollars) == dollars * 1000

\* ------------------------------------------------------ environment inputs
BalanceLevels == {100, 200, 1000}      \* USDT balance / Drift free collateral, USD
UsdtLevels == {200, 1000}              \* USDT balance seen by the balance gate
SolLevels == {1, 10}                   \* SOL balance
Assets == {"USDT", "SOL"}

\* get_all_balances(): a mapping asset -> amount; an asset may be missing.
BalanceMaps ==
  UNION { { b \in [D -> UsdtLevels \cup SolLevels] :
              /\ ("USDT" \in D => b["USDT"] \in UsdtLevels)
              /\ ("SOL" \in D => b["SOL"] \in SolLevels) } :
          D \in (SUBSET Assets) \ {Assets} }
    \cup { [a \in Assets |-> IF a = "USDT" THEN 1000 ELSE 10] }

NoBalances == [a \in {} |-> 0]

\* dict.get(key, default)
Get(balances, key, default) ==
  IF key \in DOMAIN balances THEN balances[key] ELSE default

VARIABLES
  enable_testnet,      \* ENABLE_TESTNET_TRADING: binance_testnet is created
  use_real_drift,      \* USE_REAL_DRIFT: drift_integration (else drift_devnet)
  active_orders,       \* self.active_orders
  order_counter,       \* self.order_counter
  opportunities_found, \* self.opportunities_found
  trades_attempted,    \* self.trades_attempted
  trades_successful,   \* self.trades_successful
  pc,                  \* position of each price_callback coroutine
  cb,                  \* locals of each price_callback coroutine
  last                 \* what the callback that returned last reported

vars == <<enable_testnet, use_real_drift, active_orders, order_counter,
          opportunities_found, trades_attempted, trades_successful,
          pc, cb, last>>

config == <<enable_testnet, use_real_drift>>
stats == <<opportunities_found, trades_attempted, trades_successful>>

\* A bot that builds the real Drift integration whenever the testnet is on.
drift_integration_with_testnet == enable_testnet

\* self.binance_testnet / self.drift_integration / self.drift_devnet exist
binance_testnet == enable_testnet
drift_integration == enable_testnet /\ use_real_drift
drift_devnet == enable_testnet /\ ~use_real_drift

\* --------------------------------------------------------- pure functions

\* An effective balance that looks at the first venue only.
FirstOnly(a, b) == a

\* min(binance_balance, drift_balance)
Min(a, b) == IF a <= b THEN a ELSE b

\* Amounts that are not whole (quantities, profits) are exact fractions
\* [n, d] in lowest terms with d > 0.
Abs(a) == IF a < 0 THEN -a ELSE a

RECURSIVE Gcd(_, _)
Gcd(a, b) == IF b = 0 THEN a ELSE Gcd(b, a % b)

Frac(n, d) ==
  LET g == Gcd(Abs(n), Abs(d))
      sign == IF d < 0 THEN -1 ELSE 1
  IN  [n |-> sign * (n \div g), d |-> sign * (d \div g)]

FracMul(x, y) == Frac(x.n * y.n, x.d * y.d)
FracDiv(x, y) == Frac(x.n * y.d, x.d * y.n)
FracSub(x, y) == Frac(x.n * y.d - y.n * x.d, x.d * y.d)

\* A direction rule that buys spot on a tie.
direction_tie_buys(spot_price, perp_price) ==
  IF perp_price >= spot_price
    THEN [action |-> "BUY_SPOT_SELL_PERP", binance_side |-> "BUY",
          drift_side |-> "SHORT"]
    ELSE [action |-> "SELL_SPOT_BUY_PERP", binance_side |-> "SELL",
          drift_side |-> "LONG"]

\* ArbitrageExecutor.determine_arbitrage_direction
determine_arbitrage_direction(spot_price, perp_price) ==
  IF perp_price > spot_price
    THEN [action |-> "BUY_SPOT_SELL_PERP", binance_side |-> "BUY",
          drift_side |-> "SHORT"]
    ELSE [action |-> "SELL_SPOT_BUY_PERP", binance_side |-> "SELL",
          drift_side |-> "LONG"]

NoDirection == [action |-> "", binance_side |-> "", drift_side |-> ""]

\* A balance rule without the fee buffer.
SufficientWithoutBuffer(direction, trade_size_usd, spot_price, balances) ==
  LET usdt_balance == Get(balances, "USDT", 0)
      sol_balance == Get(balances, "SOL", 0)
  IN  IF direction.binance_side = "BUY"
        THEN usdt_balance * 1000 >= trade_size_usd
        ELSE sol_balance * spot_price * 1000 >= trade_size_usd

\* ArbitrageExecutor.check_required_balances, the branch in which the balance
\* query answered.  trade_size_usd is in mills, balances in whole units:
\*   usdt_balance >= trade_size_usd * 1.001
\*   sol_balance  >= (trade_size_usd / spot_price) * 1.001
\* are compared after multiplying both sides by 1000 * 1000 (* spot_price).
SufficientBalance(direction, trade_size_usd, spot_price, balances) ==
  LET usdt_balance == Get(balances, "USDT", 0)
      sol_balance == Get(balances, "SOL", 0)
  IN  IF direction.binance_side = "BUY"
        THEN usdt_balance * 1000 * 1000 >= trade_size_usd * fee_buffer_permille
        ELSE sol_balance * spot_price * 1000 * 1000
               >= trade_size_usd * fee_buffer_permille

NoCheck == [made |-> FALSE, sufficient |-> FALSE, keys |-> {}, error |-> ""]

\* The dict check_required_balances returns: `raised` is the outcome of
\* self.binance.get_all_balances().
check_required_balances(direction, trade_size_usd, spot_price, raised, balances) ==
  IF raised
    THEN [made |-> TRUE, sufficient |-> FALSE, keys |-> {"error"},
          error |-> "BalanceQueryError"]
    ELSE [made |-> TRUE,
          sufficient |-> SufficientBalance(direction, trade_size_usd,
                                           spot_price, balances),
          keys |-> {"required", "available", "action"}, error |-> ""]

\* A fee estimate of 0.1% of the trade size.
estimated_fees_halved(trade_size_usd) == Frac(trade_size_usd, 1000 * 1000)

\* estimated_fees = trade_size_usd * 0.002 (trade_size_usd in mills)
estimated_fees(trade_size_usd) == Frac(trade_size_usd * 2, 1000 * 1000)

\* execute_arbitrage: the 'trade_details' of a success (trade_size_usd in
\* mills, prices in USD).
trade_details(direction, spot_price, perp_price, trade_size_usd) ==
  LET size == Frac(trade_size_usd, 1000)
      sol_quantity == FracDiv(size, Frac(spot_price, 1))
      profit_per_unit ==
        IF direction.binance_side = "BUY"
          THEN Frac(perp_price - spot_price, 1)
          ELSE Frac(spot_price - perp_price, 1)
      gross_profit == FracMul(profit_per_unit, sol_quantity)
      net_profit == FracSub(gross_profit, estimated_fees(trade_size_usd))
  IN  [sol_quantity |-> sol_quantity,
       trade_size_usd |-> size,
       spot_price |-> spot_price,
       perp_price |-> perp_price,
       profit_per_unit |-> profit_per_unit,
       gross_profit |-> gross_profit,
       estimated_fees |-> estimated_fees(trade_size_usd),
       net_profit |-> net_profit,
       roi_percent |-> FracMul(FracDiv(net_profit, size), Frac(100, 1))]

\* sum(order.get('allocated_amount', 0) for order in self.active_orders)
RECURSIVE used_capital(_)
used_capital(orders) ==
  IF orders = <<>> THEN 0
  ELSE Head(orders).allocated_amount + used_capital(Tail(orders))

\* A count that sees no active order.
active_order_count_zero(orders) == 0

\* len(self.active_orders), as calculate_dynamic_allocation
\* (active_order_count) and the cap check read it.
active_order_count(orders) == Len(orders)

\* A tier rule whose second order takes 90% of the whole effective balance.
TierOfWholeBalance(effective_balance, orders) ==
  IF active_order_count(orders) = 0
    THEN (effective_balance * first_order_pct) \div 100
  ELSE IF active_order_count(orders) = 1
    THEN (effective_balance * second_order_pct) \div 100
  ELSE 0

\* A tier rule that sizes every order as the first one.
TierAlwaysFirst(effective_balance, orders) ==
  IF Len(orders) <= 1
    THEN (effective_balance * first_order_pct) \div 100
  ELSE 0

\* calculate_dynamic_allocation: the tier by the number of active orders.
\* The percentages divide exactly (see the module header).
TierAllocation(effective_balance, orders) ==
  IF active_order_count(orders) = 0
    THEN (effective_balance * first_order_pct) \div 100
  ELSE IF active_order_count(orders) = 1
    THEN ((effective_balance - used_capital(orders)) * second_order_pct) \div 100
  ELSE 0

\* A clamp that lets a too small allocation through.
ClampNoFloor(allocation) ==
  IF allocation > Mills(max_trade_size) THEN Mills(max_trade_size)
  ELSE allocation

\* A clamp that does not cap at the maximum.
ClampNoCap(allocation) ==
  IF allocation < Mills(min_trade_size) THEN 0 ELSE allocation

\* calculate_dynamic_allocation: minimum trade size and maximum limit.
ClampAllocation(allocation) ==
  IF allocation < Mills(min_trade_size) THEN 0
  ELSE IF allocation > Mills(max_trade_size) THEN Mills(max_trade_size)
  ELSE allocation

NoPlan == [made |-> FALSE, failed |-> FALSE, can_trade |-> FALSE,
           allocation |-> 0, effective_balance |-> 0, active_orders |-> 0]

\* calculate_dynamic_allocation once both balances are known (mills).
calculate_dynamic_allocation(binance_balance, drift_balance, orders) ==
  LET effective_balance == Min(binance_balance, drift_balance)
      allocation == ClampAllocation(TierAllocation(effective_balance, orders))
  IN  [made |-> TRUE, failed |-> FALSE,
       can_trade |-> allocation >= Mills(min_trade_size),
       allocation |-> allocation,
       effective_balance |-> effective_balance,
       active_orders |-> active_order_count(orders)]

\* What _execute_professional_arbitrage holds in allocation_result:
\* can_trade, allocation, the reason (a tier message or the error) and the
\* number of active orders the allocation was planned on.
Read(plan) ==
  [made |-> plan.made, failed |-> plan.failed, can_trade |-> plan.can_trade,
   allocation |-> plan.allocation, active_orders |-> plan.active_orders]

\* calculate_dynamic_allocation when a balance query raised (except branch).
AllocationError ==
  [made |-> TRUE, failed |-> TRUE, can_trade |-> FALSE, allocation |-> 0,
   effective_balance |-> 0, active_orders |-> 0]

\* A cap check that still admits an execution at the limit.
CapReachedAboveLimit(orders) ==
  active_order_count(orders) > max_concurrent_orders

\* _execute_professional_arbitrage: the concurrent order limit.
CapReached(orders) == active_order_count(orders) >= max_concurrent_orders

\* ------------------------------------------------- one callback's locals

Outcomes == {"ok", "none", "raise"}   \* a venue call: answer, no answer, raises

NoResult == [returned |-> FALSE, success |-> FALSE, error |-> "", keys |-> {}]

\* A returned result dict: `keys` are its keys besides success and error.
Failure(error, keys) ==
  [returned |-> TRUE, success |-> FALSE, error |-> error, keys |-> keys]

Success ==
  [returned |-> TRUE, success |-> TRUE, error |-> "",
   keys |-> {"direction", "binance_order", "drift_order", "trade_details"}]

\* Locals of a price_callback that has not run yet.
Fresh ==
  [spot_price |-> 0, perp_price |-> 0, opportunity |-> FALSE,
   caught |-> "", binance_balance |-> 0, allocation_result |-> Read(NoPlan),
   trade_size_usd |-> 0, order_id |-> 0, direction |-> NoDirection,
   balance_check |-> NoCheck, binance_order |-> FALSE,
   attempts |-> 0, calls |-> <<>>, result |-> NoResult]

\* What a returned callback leaves to observe: whether it saw an
\* opportunity, the exception price_callback caught, the allocation and
\* balance-gate decisions, by how much it raised trades_attempted, the venue
\* calls it made and the execution result.
Report(c) ==
  [opportunity |-> c.opportunity, caught |-> c.caught,
   planned |-> c.allocation_result.made,
   can_trade |-> c.allocation_result.can_trade,
   balance_check |-> c.balance_check, binance_order |-> c.binance_order,
   attempts |-> c.attempts, calls |-> c.calls, result |-> c.result]

Init ==
  /\ enable_testnet \in BOOLEAN
  /\ use_real_drift \in BOOLEAN
  /\ (~enable_testnet => ~use_real_drift)
  /\ active_orders = <<>>
  /\ order_counter = 0
  /\ opportunities_found = 0
  /\ trades_attempted = 0
  /\ trades_successful = 0
  /\ pc = [p \in Procs |-> "idle"]
  /\ cb = [p \in Procs |-> Fresh]
  /\ last = Report(Fresh)

\* A return that takes the price feed down with a callback that failed.
FinishAborting(p, c) ==
  /\ pc' = [pc EXCEPT ![p] = IF c.caught # ""
                                   \/ (c.result.returned /\ ~c.result.success)
                                THEN "aborted" ELSE "idle"]
  /\ cb' = [cb EXCEPT ![p] = Fresh]
  /\ last' = Report(c)

\* The callback of p returns with locals c (the alert and the periodic
\* report change no state of the bot); its frame is gone.
Finish(p, c) ==
  /\ pc' = [pc EXCEPT ![p] = "idle"]
  /\ cb' = [cb EXCEPT ![p] = Fresh]
  /\ last' = Report(c)

\* The callback of p suspends at an await with locals c.
Suspend(p, at, c) ==
  /\ pc' = [pc EXCEPT ![p] = at]
  /\ cb' = [cb EXCEPT ![p] = c]
  /\ last' = last

\* ---------------------------------------------------- execute_arbitrage

\* A gate that lets every trade through.
gate_passes_always(balance_check) == TRUE

\* execute_arbitrage: `if not balance_check['sufficient']` is not taken.
gate_passes(balance_check) == balance_check.sufficient

\* A spot leg that counts an unanswered order as placed.
spot_confirmed_unless_raised(spot_outcome) == spot_outcome # "raise"

\* execute_arbitrage: place_test_order returned an order
\* (`if not binance_order` is not taken).
spot_confirmed(spot_outcome) == spot_outcome = "ok"

\* execute_arbitrage up to its only await: direction, balance gate and the
\* spot order.  The answer is the locals and where the coroutine stands:
\* "done" with a returned result, or "await_perp_order".
execute_arbitrage(c, gate_raised, balances, spot_outcome) ==
  LET direction == determine_arbitrage_direction(c.spot_price, c.perp_price)
      balance_check == check_required_balances(
                         direction, c.trade_size_usd, c.spot_price,
                         gate_raised, balances)
      c1 == [c EXCEPT !.direction = direction,
                      !.balance_check = balance_check,
                      !.calls = Append(@, "check.get_all_balances")]
      c2 == [c1 EXCEPT !.calls = Append(@, "place_test_order"),
                       !.binance_order = (spot_outcome = "ok")]
  IN  IF ~gate_passes(balance_check)
        THEN IF "required" \in balance_check.keys
               THEN [to |-> "done",
                     cb |-> [c1 EXCEPT !.result =
                               Failure("Insufficient balance",
                                       {"direction", "balance_check"})]]
               \* balance_check['required'] raises KeyError: except branch
               ELSE [to |-> "done",
                     cb |-> [c1 EXCEPT !.result =
                               Failure("'required'", {"direction"})]]
      ELSE IF spot_outcome = "raise"
        THEN [to |-> "done",
              cb |-> [c2 EXCEPT !.result =
                        Failure("SpotOrderError", {"direction"})]]
      ELSE IF ~spot_confirmed(spot_outcome)
        THEN [to |-> "done",
              cb |-> [c2 EXCEPT !.result =
                        Failure("Binance order failed", {"direction"})]]
      ELSE [to |-> "await_perp_order",
            cb |-> [c2 EXCEPT !.calls = Append(@, "place_perp_order")]]

\* An executor that lets the exception of place_perp_order go by without a
\* result.
perp_order_unhandled(perp_outcome) ==
  IF perp_outcome = "raise"
    THEN NoResult
  ELSE IF perp_outcome = "none"
    THEN Failure("Drift order failed", {"direction", "binance_order"})
  ELSE Success

\* execute_arbitrage after place_perp_order came back.
perp_order_result(perp_outcome) ==
  IF perp_outcome = "raise"
    THEN Failure("PerpOrderError", {"direction"})
  ELSE IF perp_outcome = "none"
    THEN Failure("Drift order failed", {"direction", "binance_order"})
  ELSE Success

\* A tracking step in which the new record takes the place of the old ones.
track_order_replacing(orders, result, order_record) ==
  IF result.success THEN <<order_record>> ELSE orders

\* A tracking step that records the order whatever the result.
track_order_any(orders, result, order_record) == Append(orders, order_record)

\* _execute_professional_arbitrage: track the order of a result.
track_order(orders, result, order_record) ==
  IF result.success THEN Append(orders, order_record) ELSE orders

\* ------------------------------------- _execute_professional_arbitrage

\* An execution that counts its attempt twice.
record_attempt_twice(attempted) == attempted + 2

\* An execution that does not count the attempt here.
record_attempt_skipped(attempted) == attempted

\* A counter that skips a value with every id.
order_counter_skipping(counter) == counter + 2

\* A counter that stays where it is when an id is generated.
order_counter_stuck(counter) == counter

\* _execute_professional_arbitrage: self.order_counter += 1
advance_order_counter(counter) == counter + 1

\* _execute_professional_arbitrage: self.trades_attempted += 1
record_attempt(attempted) == attempted + 1

\* The coroutine of p goes where execute_arbitrage stands.
Proceed(p, r) ==
  IF r.to = "done" THEN Finish(p, r.cb) ELSE Suspend(p, r.to, r.cb)

\* Every way execute_arbitrage can run up to its first await (or its
\* return): the balance check raises, or it reads some balances and the
\* spot order comes back, comes back empty, or raises.
ExecutorRuns(c) ==
  {execute_arbitrage(c, TRUE, NoBalances, "ok")}
    \cup {execute_arbitrage(c, FALSE, balances, spot_outcome) :
            balances \in BalanceMaps, spot_outcome \in Outcomes}

\* From the allocation decision to the first await of execute_arbitrage (or
\* the return): calculate_dynamic_allocation's `plan`, the attempt, the
\* order id and the executor's balance gate and spot leg.
PlanAndExecute(p, c, plan) ==
  LET c1 == [c EXCEPT !.allocation_result = Read(plan), !.binance_balance = 0]
  IN  IF ~plan.can_trade
        THEN /\ Finish(p, [c1 EXCEPT !.result =
                             Failure(IF plan.failed
                                       THEN "Balance calculation error"
                                       ELSE "Order n of 2: $0.00 available",
                                     {})])
             /\ UNCHANGED <<trades_attempted, order_counter>>
        ELSE /\ trades_attempted' = record_attempt(trades_attempted)
             /\ order_counter' = advance_order_counter(order_counter)
             /\ LET c2 == [c1 EXCEPT !.trade_size_usd = plan.allocation,
                                     !.attempts = record_attempt(trades_attempted)
                                                    - trades_attempted,
                                     !.order_id = order_counter + 1]
                IN  IF drift_integration
                      THEN \E r \in ExecutorRuns(c2) : Proceed(p, r)
                      ELSE Finish(p, [c2 EXCEPT !.result =
                                        Failure("Real Drift not available", {})])

\* ------------------------------------------------------- price_callback

\* A callback that does not count its opportunity.
record_opportunity_skipped(found) == found

\* price_callback: self.opportunities_found += 1
record_opportunity(found) == found + 1

\* A tick is handled by a new coroutine; coroutine frames are
\* interchangeable, so the new one takes the first free slot.
CanStart(p) ==
  /\ pc[p] = "idle"
  /\ \A q \in Procs : q < p => pc[q] # "idle"

\* The (spot, perp) prices of a tick.
Ticks == {<<100, 101>>, <<101, 100>>, <<100, 100>>}

\* The prices of a tick the detector reports as an opportunity: the
\* spread of an Opportunity is strictly positive.
Opportunities == {t \in Ticks : t[1] # t[2]}

\* A tick for which the detector returns None, or raises (caught by
\* price_callback's except).
TickIgnored(p) ==
  /\ CanStart(p)
  /\ \E detector \in {"none", "raise"} :
       Finish(p, [Fresh EXCEPT !.caught = IF detector = "raise"
                                            THEN "DetectorError" ELSE ""])
  /\ UNCHANGED <<config, active_orders, order_counter, stats>>

\* calculate_dynamic_allocation up to its await, entered with locals c0:
\* usdt is what get_balance('USDT') answers (mills), asked whether it was
\* called.
StartAllocation(p, c0, asked, usdt) ==
  LET c1 == [c0 EXCEPT !.calls = IF asked THEN Append(@, "get_balance") ELSE @,
                       !.binance_balance = usdt]
  IN  IF drift_integration
        THEN \E drift_connected \in BOOLEAN :
               IF drift_connected
                 THEN /\ Suspend(p, "await_drift_balance",
                           [c1 EXCEPT !.calls = Append(@, "get_account_info")])
                      /\ UNCHANGED <<trades_attempted, order_counter>>
                 ELSE PlanAndExecute(p, c1,
                        calculate_dynamic_allocation(usdt, 0, active_orders))
      ELSE IF drift_devnet
        THEN /\ Suspend(p, "await_drift_balance",
                  [c1 EXCEPT !.calls = Append(@, "get_collateral_balance")])
             /\ UNCHANGED <<trades_attempted, order_counter>>
      ELSE PlanAndExecute(p, c1,
             calculate_dynamic_allocation(usdt, 0, active_orders))

\* A tick with an opportunity, up to the first await or the end of the
\* callback.  connected: binance_testnet.connected; log_query and
\* usdt_query: the outcomes of get_all_balances() and get_balance('USDT').
TickOpportunity(p) ==
  /\ CanStart(p)
  /\ opportunities_found < MaxOpportunities
  /\ opportunities_found' = record_opportunity(opportunities_found)
  /\ UNCHANGED <<config, active_orders, trades_successful>>
  /\ \E tick \in Opportunities, connected \in BOOLEAN :
       LET asked == binance_testnet /\ connected
           c0 == [Fresh EXCEPT !.spot_price = tick[1], !.perp_price = tick[2],
                               !.opportunity = TRUE,
                               !.calls = IF asked THEN <<"get_all_balances">>
                                                  ELSE <<>>]
       IN  \E log_query \in (IF asked THEN {"ok", "raise"} ELSE {"ok"}) :
             IF log_query = "raise"
               THEN /\ Finish(p, [c0 EXCEPT !.caught = "BalanceQueryError"])
                    /\ UNCHANGED <<trades_attempted, order_counter>>
             ELSE IF ~(enable_testnet /\ binance_testnet)
               THEN /\ Finish(p, c0)
                    /\ UNCHANGED <<trades_attempted, order_counter>>
             ELSE IF CapReached(active_orders)
               THEN /\ Finish(p, [c0 EXCEPT !.result =
                                    Failure("Maximum concurrent orders reached",
                                            {})])
                    /\ UNCHANGED <<trades_attempted, order_counter>>
             ELSE IF ~asked
               THEN StartAllocation(p, c0, FALSE, 0)
             ELSE \E usdt_query \in {"ok", "raise"} :
                    IF usdt_query = "raise"
                      THEN PlanAndExecute(p,
                             [c0 EXCEPT !.calls = Append(@, "get_balance")],
                             AllocationError)
                      ELSE \E usdt \in BalanceLevels :
                             StartAllocation(p, c0, TRUE, Mills(usdt))

\* The plans calculate_dynamic_allocation can come to once the Drift
\* balance query is back, one per answer of the query.
DriftPlan(binance_balance, answer, collateral) ==
  IF answer = "raise"
    THEN AllocationError
  ELSE IF answer = "none" /\ drift_integration
    THEN calculate_dynamic_allocation(binance_balance, 0, active_orders)
  ELSE calculate_dynamic_allocation(binance_balance, Mills(collateral),
                                    active_orders)

DriftPlans(binance_balance) ==
  {DriftPlan(binance_balance, answer, collateral) :
     answer \in Outcomes, collateral \in BalanceLevels}

\* The Drift balance query of calculate_dynamic_allocation came back:
\* a value (free_collateral, or the simulated collateral), no account info
\* (or no free_collateral key), or an exception.
DriftBalanceReturns(p) ==
  /\ pc[p] = "await_drift_balance"
  /\ \E plan \in DriftPlans(cb[p].binance_balance) :
       PlanAndExecute(p, cb[p], plan)
  /\ UNCHANGED <<config, active_orders, opportunities_found,
                 trades_successful>>

\* place_perp_order came back: the rest of execute_arbitrage and of
\* _execute_professional_arbitrage.
PerpOrderReturns(p) ==
  /\ pc[p] = "await_perp_order"
  /\ \E perp_outcome \in Outcomes :
       LET result == perp_order_result(perp_outcome)
           order_record == [order_id |-> cb[p].order_id,
                            allocated_amount |-> cb[p].trade_size_usd]
       IN  /\ active_orders' = track_order(active_orders, result, order_record)
           /\ trades_successful' =
                IF result.success THEN trades_successful + 1
                                  ELSE trades_successful
           /\ Finish(p, [cb[p] EXCEPT !.result = result])
  /\ UNCHANGED <<config, order_counter, opportunities_found,
                 trades_attempted>>

Step(p) ==
  \/ TickIgnored(p)
  \/ TickOpportunity(p)
  \/ DriftBalanceReturns(p)
  \/ PerpOrderReturns(p)

Next == \E p \in Procs : Step(p)

Spec == Init /\ [][Next]_vars

\* Callbacks processed one at a time: a step is taken only while no other
\* callback is in flight.
Quiet(p) == \A q \in Procs \ {p} : pc[q] = "idle"

NextSeq ==
  \E p \in Procs :
    \/ Quiet(p) /\ TickIgnored(p)
    \/ Quiet(p) /\ TickOpportunity(p)
    \/ DriftBalanceReturns(p)
    \/ PerpOrderReturns(p)

SpecSeq == Init /\ [][NextSeq]_vars

\* --------------------------------- calculate_dynamic_allocation on its own

\* The allocation called directly on a bot holding any active orders of a
\* tradable size and any pair of venue balances; `last` holds the dict it
\* returned.
AllocLevels == {50, 90, 200}           \* allocated_amount of an active order, USD
AllocBalances == {0} \cup BalanceLevels \* a venue balance, USD

OrderLists ==
  UNION { { [i \in 1..n |-> [order_id |-> i, allocated_amount |-> Mills(f[i])]] :
              f \in [1..n -> AllocLevels] } : n \in 0..MaxActive }

InitAlloc ==
  /\ enable_testnet = TRUE
  /\ use_real_drift = TRUE
  /\ active_orders \in OrderLists
  /\ order_counter = Len(active_orders)
  /\ opportunities_found = Len(active_orders)
  /\ trades_attempted = Len(active_orders)
  /\ trades_successful = Len(active_orders)
  /\ pc = [p \in Procs |-> "idle"]
  /\ cb = [p \in Procs |-> Fresh]
  /\ last = NoPlan

\* Both balance queries answer.
Allocate ==
  /\ \E binance_balance \in AllocBalances, drift_balance \in AllocBalances :
       last' = calculate_dynamic_allocation(Mills(binance_balance),
                                            Mills(drift_balance), active_orders)
  /\ UNCHANGED <<config, active_orders, order_counter, stats, pc, cb>>

\* A balance query raises.
AllocateFails ==
  /\ last' = AllocationError
  /\ UNCHANGED <<config, active_orders, order_counter, stats, pc, cb>>

NextAlloc == Allocate \/ AllocateFails

SpecAlloc == InitAlloc /\ [][NextAlloc]_vars

\* ------------------------------------------ ArbitrageExecutor on its own

\* The executor's pure steps applied to any prices, trade size and spot
\* balances; `last` holds the inputs and what the step returned.
Prices == {99, 100, 101}               \* a spot or perp price, USD
TradeSizes == {50, 100, 200}           \* trade_size_usd, USD
Directions ==
  {determine_arbitrage_direction(spot_price, perp_price) :
     spot_price \in Prices, perp_price \in Prices}

InitExecutor ==
  /\ enable_testnet = TRUE
  /\ use_real_drift = TRUE
  /\ active_orders = <<>>
  /\ order_counter = 0
  /\ opportunities_found = 0
  /\ trades_attempted = 0
  /\ trades_successful = 0
  /\ pc = [p \in Procs |-> "idle"]
  /\ cb = [p \in Procs |-> Fresh]
  /\ last = [step |-> "none"]

Direct ==
  /\ \E spot_price \in Prices, perp_price \in Prices :
       last' = [step |-> "direction",
                spot_price |-> spot_price, perp_price |-> perp_price,
                direction |-> determine_arbitrage_direction(spot_price,
                                                            perp_price)]
  /\ UNCHANGED <<config, active_orders, order_counter, stats, pc, cb>>

CheckBalances ==
  /\ \E direction \in Directions, size \in TradeSizes, spot_price \in Prices,
        balances \in BalanceMaps :
       last' = [step |-> "check", direction |-> direction,
                trade_size_usd |-> Mills(size), spot_price |-> spot_price,
                balances |-> balances,
                balance_check |-> check_required_balances(
                  direction, Mills(size), spot_price, FALSE, balances)]
  /\ UNCHANGED <<config, active_orders, order_counter, stats, pc, cb>>

\* Both legs succeeded: the direction of line 159 and the profit breakdown.
TakeProfit ==
  /\ \E spot_price \in Prices, perp_price \in Prices, size \in TradeSizes :
       LET direction == determine_arbitrage_direction(spot_price, perp_price)
       IN  last' = [step |-> "profit", direction |-> direction,
                    trade_details |-> trade_details(direction, spot_price,
                                                    perp_price, Mills(size))]
  /\ UNCHANGED <<config, active_orders, order_counter, stats, pc, cb>>

NextExecutor == Direct \/ CheckBalances \/ TakeProfit

SpecExecutor == InitExecutor /\ [][NextExecutor]_vars

\* ------------------------------------------------------------------ claims

\* The callbacks to observe: those in flight and the one that returned last.
Observed == {last} \cup {Report(cb[p]) : p \in Procs}

\* The venue call was made.
Called(r, call) == \E i \in DOMAIN r.calls : r.calls[i] = call

\* Every call `after` has a call `before` ahead of it.
Precedes(r, before, after) ==
  \A j \in DOMAIN r.calls :
    r.calls[j] = after => \E i \in 1..(j - 1) : r.calls[i] = before

\* The orders submitted to the two venues.
Orders(r) ==
  {i \in DOMAIN r.calls : r.calls[i] \in {"place_test_order", "place_perp_order"}}

\* C1: with price callbacks processed one at a time (SpecSeq), the number of
\* active orders never exceeds max_concurrent_orders, whatever the ticks,
\* balances and venue outcomes.
C1_ActiveWithinCap == Len(active_orders) <= max_concurrent_orders

\* C1 witness: the cap is reached and a later opportunity was turned away.
C1_CapReachedAndRejected ==
  /\ Len(active_orders) = max_concurrent_orders
  /\ last.result.returned
  /\ last.result.error = "Maximum concurrent orders reached"

\* C2: with several price callbacks in flight and interleaving at their
\* awaits (Spec), there is no position in active_orders beyond
\* max_concurrent_orders.
C2_CapUnderInterleaving ==
  \A i \in 1..Len(active_orders) : i <= max_concurrent_orders

\* C3: every dict calculate_dynamic_allocation returns, the except branch
\* included, has allocation 0 or within [min_trade_size, max_trade_size], and
\* can_trade exactly when allocation >= min_trade_size; a raw tier
\* allocation below the minimum gives allocation 0 and can_trade false.
C3_AllocationInRange ==
  last.made =>
    /\ \/ last.allocation = 0
       \/ /\ Mills(min_trade_size) <= last.allocation
          /\ last.allocation <= Mills(max_trade_size)
    /\ last.can_trade <=> (last.allocation >= Mills(min_trade_size))
    /\ (/\ ~last.failed
        /\ TierAllocation(last.effective_balance, active_orders)
             < Mills(min_trade_size))
         => (last.allocation = 0 /\ ~last.can_trade)

\* C3 witness: one active order larger than the effective balance, so the
\* remaining balance and the raw allocation are negative.
C3_NegativeRemaining ==
  /\ last.made /\ ~last.failed
  /\ last.active_orders = 1
  /\ last.effective_balance < used_capital(active_orders)
  /\ last.allocation = 0
  /\ ~last.can_trade

\* C4 as stated: no active orders and an effective balance of 1000 give
\* allocation 450 and can_trade.
C4_FirstOrderOf1000Is450 ==
  (last.made /\ ~last.failed /\ last.active_orders = 0
     /\ last.effective_balance = Mills(1000))
    => (last.allocation = Mills(450) /\ last.can_trade)

\* C4 amended: no active orders and an effective balance of 1000 give the
\* raw 450 capped to max_trade_size, allocation 200, and can_trade.
C4_FirstOrderOf1000Is200 ==
  (last.made /\ ~last.failed /\ last.active_orders = 0
     /\ last.effective_balance = Mills(1000))
    => (last.allocation = Mills(max_trade_size) /\ last.can_trade)

\* C4 witness: the allocation was asked with no active orders and an
\* effective balance of 1000.
C4_PlannedFirstWith1000 ==
  /\ last.made /\ ~last.failed
  /\ last.active_orders = 0
  /\ last.effective_balance = Mills(1000)

\* The tier rule of the specification, scaled by 100 to stay in integers:
\* 45% of the effective balance, 90% of what the active order leaves, or 0.
RawTimes100(effective_balance, orders) ==
  IF Len(orders) = 0 THEN 45 * effective_balance
  ELSE IF Len(orders) = 1
    THEN 90 * (effective_balance - orders[1].allocated_amount)
  ELSE 0

\* C5: the allocation returned is the tier rule (45% of the effective balance
\* with no active order, 90% of the remaining balance with one, 0 with two or
\* more) forced to 0 below 50 and capped at 200; one active order of 450 and
\* an effective balance of 1000 give 200.
C5_TieredRule ==
  /\ (last.made /\ ~last.failed) =>
       LET raw100 == RawTimes100(last.effective_balance, active_orders)
       IN  /\ last.active_orders = Len(active_orders)
           /\ 100 * last.allocation =
                 IF raw100 < 100 * Mills(50) THEN 0
                 ELSE IF raw100 > 100 * Mills(200) THEN 100 * Mills(200)
                 ELSE raw100
  /\ calculate_dynamic_allocation(
       Mills(1000), Mills(1000),
       <<[order_id |-> 1, allocated_amount |-> Mills(450)]>>).allocation
       = Mills(200)

\* C5 witness: one active order, and an allocation of 90% of the remaining
\* balance that is neither zeroed nor capped.
C5_SecondOrderInRange ==
  /\ last.made /\ ~last.failed
  /\ last.active_orders = 1
  /\ last.allocation > Mills(min_trade_size)
  /\ last.allocation < Mills(max_trade_size)

\* C6: a spot order is placed only after the balance gate of the same
\* execution answered sufficient; an execution whose balance is insufficient
\* returns success = false with the required and available amounts and
\* places no order on either venue.
C6_SpotOnlyAfterGate ==
  \A r \in Observed :
    /\ Called(r, "place_test_order") =>
         /\ r.balance_check.made /\ r.balance_check.sufficient
         /\ Precedes(r, "check.get_all_balances", "place_test_order")
    /\ (r.balance_check.made /\ ~r.balance_check.sufficient
          /\ r.balance_check.error = "") =>
         /\ r.result.returned /\ ~r.result.success
         /\ "balance_check" \in r.result.keys
         /\ {"required", "available"} \subseteq r.balance_check.keys
         /\ Orders(r) = {}

\* C6 witness: one execution has placed its spot order after a sufficient
\* gate while the execution that returned last was rejected as insufficient.
C6_PlacedAndRejected ==
  /\ \E p \in Procs : Called(cb[p], "place_test_order")
  /\ last.balance_check.made /\ ~last.balance_check.sufficient
  /\ last.result.error = "Insufficient balance"

\* C7: the perpetual order of an execution is submitted only after its spot
\* order was placed and confirmed, at most once; after a failed spot leg no
\* perpetual order is submitted.
C7_SpotFirstThenPerp ==
  \A r \in Observed :
    /\ Called(r, "place_perp_order") =>
         /\ r.binance_order
         /\ Precedes(r, "place_test_order", "place_perp_order")
         /\ Cardinality(Orders(r)) = 2
    /\ (Called(r, "place_test_order") /\ ~r.binance_order) =>
         ~Called(r, "place_perp_order")

\* C7 witness: one execution waits for its perpetual order and the one that
\* returned last ended on a failed spot leg.
C7_PerpPendingAndSpotFailed ==
  /\ \E p \in Procs : pc[p] = "await_perp_order"
  /\ Called(last, "place_test_order") /\ ~last.binance_order
  /\ last.result.returned /\ ~last.result.success

\* C8: when the perpetual leg fails after a confirmed spot leg, the result is
\* a failure that still carries binance_order, nothing is appended to
\* active_orders, trades_successful is unchanged and no further order is
\* submitted.
C8_PartialExecutionSurfaced ==
  [][\A p \in Procs :
       (pc[p] = "await_perp_order" /\ pc'[p] = "idle"
          /\ ~last'.result.success) =>
         /\ last'.result.returned
         /\ "binance_order" \in last'.result.keys
         /\ active_orders' = active_orders
         /\ trades_successful' = trades_successful
         /\ last'.calls = cb[p].calls]_vars

\* C9: when the balance query of the gate raises, the gate answers
\* insufficient with the raw error, and the execution returns a failure
\* whose error is that balance-query error; nothing is raised to
\* price_callback and no order is placed.
C9_BalanceQueryFailureReported ==
  (last.balance_check.made /\ last.balance_check.error # "") =>
    /\ ~last.balance_check.sufficient
    /\ last.result.returned /\ ~last.result.success
    /\ last.result.error = last.balance_check.error
    /\ last.caught = ""
    /\ Orders(last) = {}

\* C10 as stated: an execution rejected by the balance gate has not counted
\* an attempt.
C10_GateRejectionLeavesAttempts ==
  (last.balance_check.made /\ ~last.balance_check.sufficient
     /\ last.balance_check.error = "")
    => last.attempts = 0

\* C10 amended: the attempt is counted once the cap check and the allocation
\* have passed and before the balance gate runs, so every execution whose
\* gate was evaluated, rejected ones included, has raised trades_attempted
\* by exactly one.
C10_AttemptBeforeGate ==
  \A r \in Observed :
    /\ r.balance_check.made => r.attempts = 1
    /\ r.attempts \in {0, 1}
    /\ r.attempts = 1 => (r.planned /\ r.can_trade)

\* C10 witness: the execution that returned last was rejected by the balance
\* gate and had counted its attempt.
C10_RejectedAfterAttempt ==
  /\ last.balance_check.made /\ ~last.balance_check.sufficient
  /\ last.balance_check.error = ""
  /\ last.attempts = 1
  /\ trades_attempted >= 1

\* The callback a tick with an opportunity has just started, and what it has
\* done by the end of that step.
TickStarted == opportunities_found' = opportunities_found + 1

Starter == CHOOSE p \in Procs : CanStart(p)

Started == IF pc'[Starter] = "idle" THEN last' ELSE Report(cb'[Starter])

\* The callback entered _execute_professional_arbitrage.
Entered(r) == r.opportunity /\ enable_testnet /\ r.caught = ""

CapRejected(r) ==
  r.result.returned /\ r.result.error = "Maximum concurrent orders reached"

\* C11: an execution passes the cap check iff len(active_orders) is below
\* max_concurrent_orders; at the cap it is rejected at once with success =
\* false and an error, querying no balance, placing no order, and leaving
\* trades_attempted, trades_successful, order_counter and active_orders as
\* they were.
C11_CapCheckFrame ==
  [][(TickStarted /\ Entered(Started)) =>
       /\ CapRejected(Started) <=>
            ~(Len(active_orders) < max_concurrent_orders)
       /\ CapRejected(Started) =>
            /\ ~Started.result.success /\ Started.result.error # ""
            /\ \A i \in DOMAIN Started.calls :
                 i = 1 /\ Started.calls[i] = "get_all_balances"
            /\ ~Started.planned /\ ~Started.balance_check.made
            /\ trades_attempted' = trades_attempted
            /\ trades_successful' = trades_successful
            /\ order_counter' = order_counter
            /\ active_orders' = active_orders]_vars

\* C11 witness: an execution was turned away at the cap, having made only
\* the logging query of price_callback, after two executions succeeded.
C11_TurnedAwayAtCap ==
  /\ CapRejected(last)
  /\ last.calls = <<"get_all_balances">>
  /\ Len(active_orders) >= max_concurrent_orders
  /\ trades_successful = Len(active_orders)

\* A callback returned in this step.
Returned ==
  \/ \E p \in Procs : pc[p] # "idle" /\ pc'[p] = "idle"
  \/ TickStarted /\ pc'[Starter] = "idle"

\* C12: a record enters active_orders only when both legs succeeded: a
\* successful execution appends exactly one record and raises
\* trades_successful by exactly one, and every other step, the return of any
\* failed execution included, leaves active_orders and trades_successful
\* unchanged.
C12_RecordOnlyOnSuccess ==
  [][IF Returned /\ last'.result.success
       THEN /\ Len(active_orders') = Len(active_orders) + 1
            /\ SubSeq(active_orders', 1, Len(active_orders)) = active_orders
            /\ trades_successful' = trades_successful + 1
            /\ last'.binance_order
            /\ Called(last', "place_perp_order")
       ELSE /\ active_orders' = active_orders
            /\ trades_successful' = trades_successful]_vars

\* C12 witness: the execution that returned last succeeded and is on
\* record, after an earlier attempt that failed and left no record.
C12_SuccessAfterFailure ==
  /\ last.result.success
  /\ Len(active_orders) = 1
  /\ trades_successful = 1
  /\ trades_attempted = 2

\* The counter components of the ids held by the callbacks in flight.
InFlightIds(ps, frames) == {frames[p].order_id : p \in ps} \ {0}

\* No two ids in use share a counter component: the records of active_orders
\* among themselves, the callbacks in flight among themselves, and the ones
\* against the others; none is beyond the counter.
UniqueIds(orders, frames, counter) ==
  /\ \A i, j \in DOMAIN orders :
       i # j => orders[i].order_id # orders[j].order_id
  /\ \A p, q \in Procs :
       (p # q /\ frames[p].order_id # 0) =>
         frames[p].order_id # frames[q].order_id
  /\ \A i \in DOMAIN orders : orders[i].order_id \notin InFlightIds(Procs, frames)
  /\ \A i \in DOMAIN orders : orders[i].order_id \in 1..counter
  /\ InFlightIds(Procs, frames) \subseteq 1..counter

\* C13: order_counter rises by exactly one each time an id is generated and
\* the id carries the new counter value, so no two generated ids, and no two
\* records of active_orders, share a counter component, whether callbacks
\* run one at a time or interleave.
C13_UniqueOrderIds ==
  [][/\ order_counter' \in {order_counter, order_counter + 1}
     /\ trades_attempted' # trades_attempted =>
          order_counter' = order_counter + 1
     /\ \A p \in Procs :
          (cb'[p].order_id # 0 /\ cb'[p].order_id # cb[p].order_id) =>
            (cb'[p].order_id = order_counter'
               /\ order_counter' = order_counter + 1)
     /\ UniqueIds(active_orders', cb', order_counter')]_vars

\* C13 witness: one order is on record and two interleaved executions hold
\* ids of their own.
C13_ThreeIdsInUse ==
  /\ Len(active_orders) = 1
  /\ \A p \in Procs : pc[p] = "await_perp_order"
  /\ Cardinality(InFlightIds(Procs, cb)
                   \cup {active_orders[1].order_id}) = NumCallbacks + 1

BuySpotSellPerp ==
  [action |-> "BUY_SPOT_SELL_PERP", binance_side |-> "BUY",
   drift_side |-> "SHORT"]

SellSpotBuyPerp ==
  [action |-> "SELL_SPOT_BUY_PERP", binance_side |-> "SELL",
   drift_side |-> "LONG"]

\* C14: determine_arbitrage_direction answers for every pair of positive
\* prices: BUY_SPOT_SELL_PERP (Binance BUY, Drift SHORT) iff the perp price
\* is above the spot price, SELL_SPOT_BUY_PERP (Binance SELL, Drift LONG)
\* otherwise, the tie included.
C14_DirectionRule ==
  last.step = "direction" =>
    /\ last.direction \in {BuySpotSellPerp, SellSpotBuyPerp}
    /\ last.direction = BuySpotSellPerp <=> last.perp_price > last.spot_price
    /\ last.direction = SellSpotBuyPerp <=> last.perp_price <= last.spot_price
    /\ last.perp_price = last.spot_price => last.direction = SellSpotBuyPerp

\* C14 witness: the direction of a tie was determined.
C14_TieResolved ==
  /\ last.step = "direction"
  /\ last.perp_price = last.spot_price
  /\ last.direction.binance_side = "SELL"

\* The balance of an asset in the answer of the balance query, 0 when the
\* asset is missing.
Held(balances, asset) ==
  IF asset \in DOMAIN balances THEN balances[asset] ELSE 0

\* C15: check_required_balances answers sufficient exactly when the balance
\* covers the requirement with the 0.1% fee buffer: USDT >= trade_size_usd x
\* 1.001 for a BUY, SOL >= (trade_size_usd / spot_price) x 1.001 for a SELL,
\* a missing asset counting as 0.  (trade_size_usd is in mills: both sides
\* are multiplied by 1000 x 1000, and by spot_price for a SELL.)
C15_FeeBufferedRequirement ==
  last.step = "check" =>
    (last.balance_check.sufficient <=>
       IF last.direction.binance_side = "BUY"
         THEN Held(last.balances, "USDT") * 1000000
                >= last.trade_size_usd * (1000 + 1)
         ELSE Held(last.balances, "SOL") * last.spot_price * 1000000
                >= last.trade_size_usd * (1000 + 1))

\* C15 witness: a BUY whose USDT balance covers the trade size but not the
\* fee buffer was found insufficient.
C15_ShortOfTheBuffer ==
  /\ last.step = "check"
  /\ last.direction.binance_side = "BUY"
  /\ Held(last.balances, "USDT") * 1000 = last.trade_size_usd
  /\ ~last.balance_check.sufficient

FracEq(x, y) == x.n * y.d = y.n * x.d

\* C16: the profit breakdown of a success: profit_per_unit = perp - spot for
\* a spot BUY, else spot - perp; quantity = trade_size_usd / spot_price;
\* gross_profit = profit_per_unit x quantity; estimated_fees =
\* trade_size_usd x 0.002; net_profit = gross_profit - estimated_fees;
\* roi_percent = net_profit / trade_size_usd x 100.  Spot 100, perp 101 and
\* size 100 give buy-spot/short-perp, quantity 1, profit_per_unit 1, gross
\* 1, fees 0.2, net 0.8 and roi 0.8.
C16_ProfitBreakdown ==
  /\ last.step = "profit" =>
       LET t == last.trade_details
       IN  /\ t.profit_per_unit.d = 1
           /\ t.profit_per_unit.n =
                IF last.direction.binance_side = "BUY"
                  THEN t.perp_price - t.spot_price
                  ELSE t.spot_price - t.perp_price
           /\ t.sol_quantity.n * t.spot_price * t.trade_size_usd.d
                = t.trade_size_usd.n * t.sol_quantity.d
           /\ t.gross_profit.n * t.sol_quantity.d
                = t.profit_per_unit.n * t.sol_quantity.n * t.gross_profit.d
           /\ t.estimated_fees.n * 1000 * t.trade_size_usd.d
                = 2 * t.trade_size_usd.n * t.estimated_fees.d
           /\ t.net_profit.n * t.gross_profit.d * t.estimated_fees.d
                = (t.gross_profit.n * t.estimated_fees.d
                     - t.estimated_fees.n * t.gross_profit.d) * t.net_profit.d
           /\ t.roi_percent.n * t.trade_size_usd.n * t.net_profit.d
                = 100 * t.net_profit.n * t.trade_size_usd.d * t.roi_percent.d
  /\ LET direction == determine_arbitrage_direction(100, 101)
         t == trade_details(direction, 100, 101, Mills(100))
     IN  /\ direction = BuySpotSellPerp
         /\ FracEq(t.sol_quantity, [n |-> 1, d |-> 1])
         /\ FracEq(t.profit_per_unit, [n |-> 1, d |-> 1])
         /\ FracEq(t.gross_profit, [n |-> 1, d |-> 1])
         /\ FracEq(t.estimated_fees, [n |-> 2, d |-> 10])
         /\ FracEq(t.net_profit, [n |-> 8, d |-> 10])
         /\ FracEq(t.roi_percent, [n |-> 8, d |-> 10])

\* C16 witness: the breakdown of spot 100, perp 101, size 100 was computed.
C16_ExampleComputed ==
  /\ last.step = "profit"
  /\ last.trade_details.spot_price = 100
  /\ last.trade_details.perp_price = 101
  /\ last.trade_details.trade_size_usd = [n |-> 100, d |-> 1]
  /\ last.trade_details.roi_percent = [n |-> 4, d |-> 5]

\* The errors of the failure branches: cap reached, cannot trade (allocation
\* too small, or a balance query of the allocation raised), insufficient
\* balance, spot leg failed, perp leg failed, real Drift unavailable, and the
\* exceptions of the venue calls inside execute_arbitrage.
FailureErrors ==
  {"Maximum concurrent orders reached", "Order n of 2: $0.00 available",
   "Balance calculation error", "Insufficient balance",
   "Binance order failed", "Drift order failed", "Real Drift not available",
   "'required'", "SpotOrderError", "PerpOrderError"}

\* C17: every execution ends in a returned result with a success flag: a
\* failure, whatever its branch, comes with success = false and an error
\* string, and no exception of the execution reaches price_callback (what
\* price_callback catches was raised before the execution began).
C17_EveryOutcomeIsAResult ==
  /\ (last.opportunity /\ enable_testnet /\ last.caught = "") =>
       /\ last.result.returned
       /\ last.result.success \/ last.result.error \in FailureErrors
  /\ last.result.returned =>
       /\ last.caught = ""
       /\ last.result.success <=> last.result.error = ""
  /\ last.caught # "" =>
       /\ ~last.result.returned /\ ~last.planned /\ last.attempts = 0
       /\ \A i \in DOMAIN last.calls : last.calls[i] = "get_all_balances"

\* C17 witness: place_perp_order raised and the execution returned a failure.
C17_VenueExceptionReturned ==
  /\ last.result.returned /\ ~last.result.success
  /\ last.result.error = "PerpOrderError"
  /\ last.caught = ""
  /\ Called(last, "place_perp_order")

\* The callback of p is suspended at an await.
InFlight(p) == pc[p] \in {"await_drift_balance", "await_perp_order"}

\* Balances that carry an order of either tier.
Funded == Mills(1000)

\* C18: an error stays within its evaluation.  Whatever the callbacks so far
\* ran into (the report of the last one included), a callback that is not
\* suspended has returned and left nothing behind, the next tick is still
\* evaluated, and with capacity and balances an opportunity can still go
\* all the way: to the allocation, past the gate and the spot leg, and to a
\* successful result.
C18_ErrorsContained ==
  /\ \A p \in Procs : ~InFlight(p) => (pc[p] = "idle" /\ cb[p] = Fresh)
  /\ (\E p \in Procs : ~InFlight(p)) =>
       \E p \in Procs : CanStart(p) /\ ENABLED TickIgnored(p)
  /\ \A p \in Procs :
       (CanStart(p) /\ opportunities_found < MaxOpportunities
          /\ drift_integration /\ ~CapReached(active_orders)) =>
         ENABLED (/\ pc' = [pc EXCEPT ![p] = "await_drift_balance"]
                  /\ TickOpportunity(p)
                  /\ cb'[p].binance_balance = Funded)
  /\ \A p \in Procs :
       (pc[p] = "await_drift_balance" /\ drift_integration
          /\ cb[p].binance_balance = Funded
          /\ ~CapReached(active_orders)) =>
         ENABLED (/\ pc' = [pc EXCEPT ![p] = "await_perp_order"]
                  /\ DriftBalanceReturns(p))
  /\ \A p \in Procs :
       pc[p] = "await_perp_order" =>
         ENABLED (PerpOrderReturns(p) /\ last'.result.success)

\* C18 witness: the last callback ran into a raising order placement, and
\* the bot stands ready, with capacity, for the next tick.
C18_ReadyAfterError ==
  /\ last.result.error \in {"SpotOrderError", "PerpOrderError"}
  /\ \A p \in Procs : pc[p] = "idle"
  /\ drift_integration
  /\ ~CapReached(active_orders)
  /\ opportunities_found < MaxOpportunities

\* A tick for which the detector reported an opportunity was taken in this
\* step: its callback is now suspended, or has already returned.
OpportunityTick ==
  \/ \E p \in Procs : cb'[p].opportunity /\ ~cb[p].opportunity
  \/ pc' = pc /\ last'.opportunity

\* A tick without an opportunity was taken in this step.
EmptyTick == pc' = pc /\ ~last'.opportunity

\* C19: opportunities_found rises by exactly one with every tick for which
\* the detector reports an opportunity, whatever becomes of the execution,
\* and with nothing else; a tick without an opportunity leaves
\* opportunities_found, trades_attempted, trades_successful, order_counter
\* and active_orders unchanged and makes no venue call.
C19_OncePerOpportunity ==
  [][/\ OpportunityTick => opportunities_found' = opportunities_found + 1
     /\ ~OpportunityTick => opportunities_found' = opportunities_found
     /\ EmptyTick =>
          /\ stats' = stats
          /\ order_counter' = order_counter
          /\ active_orders' = active_orders
          /\ last'.calls = <<>>
          /\ ~last'.result.returned]_vars

\* C19 witness: two opportunities were counted, one executed and one not, and
\* the last tick had no opportunity.
C19_CountedThenEmptyTick ==
  /\ opportunities_found = 2
  /\ trades_attempted = 1
  /\ trades_successful = 1
  /\ ~last.opportunity /\ last.caught = ""
  /\ \A p \in Procs : pc[p] = "idle"

\* The allocation answered can_trade.
Planned(r) == r.planned /\ r.can_trade

\* An execution passed the cap check and the allocation check in this step:
\* on the return of the Drift balance query, or within the step of its tick.
PassedChecks ==
  \/ \E p \in Procs :
       /\ pc[p] = "await_drift_balance" /\ pc'[p] # pc[p]
       /\ Planned(IF pc'[p] = "idle" THEN last' ELSE Report(cb'[p]))
  \/ TickStarted /\ Planned(Started)

\* C20: opportunities_found, trades_attempted, trades_successful and
\* order_counter never decrease; trades_attempted rises by exactly one in
\* the step in which an execution passes the cap and allocation checks and
\* in no other, so before the outcome is known (an execution waiting for
\* its perpetual order has counted its attempt and has no result yet) and
\* whatever the outcome (the return of the perpetual order leaves the count
\* alone).
C20_CountersMonotone ==
  [][/\ opportunities_found' >= opportunities_found
     /\ trades_attempted' >= trades_attempted
     /\ trades_successful' >= trades_successful
     /\ order_counter' >= order_counter
     /\ PassedChecks => trades_attempted' = trades_attempted + 1
     /\ ~PassedChecks => trades_attempted' = trades_attempted
     /\ \A p \in Procs :
          pc'[p] = "await_perp_order" =>
            (cb'[p].attempts = 1 /\ ~cb'[p].result.returned)
     /\ \A p \in Procs :
          (pc[p] = "await_perp_order" /\ pc'[p] = "idle") =>
            (trades_attempted' = trades_attempted /\ last'.attempts = 1)]_vars

\* C20 witness: two attempts are counted, one of an execution that failed and
\* one of an execution whose perpetual order is still out.
C20_AttemptCountedBeforeOutcome ==
  /\ trades_attempted = 2
  /\ trades_successful = 0
  /\ \E p \in Procs : pc[p] = "await_perp_order" /\ cb[p].attempts = 1
  /\ last.result.returned /\ ~last.result.success /\ last.attempts = 1

\* C21: within each check, before it decides, the balance gate queries the
\* balances of both venues: the spot venue (get_all_balances) and the
\* perpetual venue (get_account_info), both ahead of any order.
C21_GateQueriesBothVenues ==
  \A r \in Observed :
    (r.balance_check.made /\ r.balance_check.error = "") =>
      /\ Called(r, "check.get_all_balances")
      /\ Called(r, "check.get_account_info")
      /\ Precedes(r, "check.get_account_info", "place_test_order")

\* C22: active_orders only grows: every step keeps the records it held, in
\* place, so the cap once reached stays reached; and an opportunity detected
\* at the cap records no attempt and places no order: its execution, when
\* price_callback gets to it, is rejected by the cap check.
C22_ActiveSetOnlyGrows ==
  [][/\ Len(active_orders') >= Len(active_orders)
     /\ SubSeq(active_orders', 1, Len(active_orders)) = active_orders
     /\ (TickStarted /\ Len(active_orders) >= max_concurrent_orders) =>
          /\ Entered(Started) => CapRejected(Started)
          /\ pc'[Starter] = "idle"
          /\ Started.attempts = 0
          /\ Orders(Started) = {}
          /\ trades_attempted' = trades_attempted
          /\ order_counter' = order_counter]_vars

\* C22 witness: with the cap reached by two recorded orders, the third
\* opportunity was rejected and nothing is in flight.
C22_SaturatedAndRejecting ==
  /\ Len(active_orders) = max_concurrent_orders
  /\ opportunities_found = 3
  /\ trades_attempted = 2
  /\ CapRejected(last)
  /\ \A p \in Procs : pc[p] = "idle"

\* The allocation asked the perpetual venue for its balance.
DriftQueried(r) ==
  Called(r, "get_account_info") \/ Called(r, "get_collateral_balance")

\* With no order on record, the allocation works from the smaller of the
\* two venue balances, and a venue too small for the minimum trade stops it.
SmallerVenueDecides ==
  \A b \in AllocBalances, d \in AllocBalances :
    LET plan == calculate_dynamic_allocation(Mills(b), Mills(d), <<>>)
    IN  /\ plan.effective_balance \in {Mills(b), Mills(d)}
        /\ plan.effective_balance <= Mills(b)
        /\ plan.effective_balance <= Mills(d)
        /\ (b * 45 < 50 * 100 \/ d * 45 < 50 * 100) =>
             (~plan.can_trade /\ plan.allocation = 0)

\* C23: the effective balance is the smaller of the two venues' balances, a
\* venue that is absent or not connected counting as 0.  With no active
\* order, a venue balance that is unavailable or below 50 / 0.45 makes
\* calculate_dynamic_allocation answer can_trade = false; and an execution
\* whose allocation did so, or that could not ask one of the venues, ends as
\* a failure with no attempt recorded and no order placed.
C23_EffectiveBalanceIsMin ==
  /\ SmallerVenueDecides
  /\ \A r \in Observed :
       /\ (r.planned /\ ~(Called(r, "get_balance") /\ DriftQueried(r))) =>
            ~r.can_trade
       /\ (r.planned /\ ~r.can_trade) =>
            /\ r.result.returned /\ ~r.result.success
            /\ r.attempts = 0
            /\ ~r.balance_check.made
            /\ Orders(r) = {}

\* C23 witness: the spot venue answered but the perpetual venue could not be
\* asked, and the execution ended on the allocation.
C23_VenueUnavailable ==
  /\ last.planned /\ ~last.can_trade
  /\ Called(last, "get_balance") /\ ~DriftQueried(last)
  /\ last.result.error = "Order n of 2: $0.00 available"

\* C24: in every reachable state, callbacks interleaved or not,
\* trades_successful <= trades_attempted <= opportunities_found, so the
\* success rate trades_successful / max(1, trades_attempted) is between 0
\* and 1.
C24_CountersOrdered ==
  /\ 0 <= trades_successful
  /\ trades_successful <= trades_attempted
  /\ trades_attempted <= opportunities_found
  /\ LET attempts == IF trades_attempted > 1 THEN trades_attempted ELSE 1
     IN  0 <= trades_successful * 100 /\ trades_successful * 100 <= attempts * 100

\* C24 witness: three opportunities, two attempts, one success, with a
\* callback still in flight.
C24_StrictlyOrdered ==
  /\ opportunities_found = 3
  /\ trades_attempted = 2
  /\ trades_successful = 1
  /\ \E p \in Procs : pc[p] # "idle"

\* C25: whenever no execution is in progress, trades_successful equals
\* len(active_orders) and order_counter equals trades_attempted.
C25_BookkeepingAgrees ==
  (\A p \in Procs : pc[p] = "idle") =>
    /\ trades_successful = Len(active_orders)
    /\ order_counter = trades_attempted

\* C25 witness: nothing is in progress after two attempts of which one is on
\* record.
C25_AtRestAfterTwoAttempts ==
  /\ \A p \in Procs : pc[p] = "idle"
  /\ trades_attempted = 2
  /\ order_counter = 2
  /\ Len(active_orders) = 1
  /\ trades_successful = 1

\* C26: every record of active_orders, and every trade size of an execution
\* under way, is between 50 and 200; and whatever the venues answer when an
\* allocation is planned on the active orders as they stand, a tradable
\* allocation and the amounts of the active orders together stay within the
\* effective balance.
C26_AllocationWithinCapital ==
  /\ \A i \in DOMAIN active_orders :
       /\ Mills(min_trade_size) <= active_orders[i].allocated_amount
       /\ active_orders[i].allocated_amount <= Mills(max_trade_size)
  /\ \A p \in Procs :
       pc[p] = "await_perp_order" =>
         /\ Mills(min_trade_size) <= cb[p].trade_size_usd
         /\ cb[p].trade_size_usd <= Mills(max_trade_size)
  /\ \A b \in AllocBalances, d \in AllocBalances :
       LET plan == calculate_dynamic_allocation(Mills(b), Mills(d),
                                                active_orders)
       IN  plan.can_trade =>
             plan.allocation + used_capital(active_orders)
               <= plan.effective_balance

\* C26 witness: with one order of 90 on record, the second one was sized
\* from what is left of 200 and is under way.
C26_SecondSizedFromRemainder ==
  /\ Len(active_orders) = 1
  /\ active_orders[1].allocated_amount = Mills(90)
  /\ \E p \in Procs :
       pc[p] = "await_perp_order" /\ cb[p].trade_size_usd = Mills(99)

\* C27: under any interleaving, the record that becomes the second of
\* active_orders belongs to an execution that was sized by the
\* one-active-order tier: its allocation was planned on one active order,
\* never on none.
C27_SecondRecordSizedBySecondTier ==
  [][\A p \in Procs :
       (pc[p] = "await_perp_order" /\ pc'[p] = "idle"
          /\ last'.result.success /\ Len(active_orders') = 2) =>
         cb[p].allocation_result.active_orders = 1]_vars

\* C28: with the simulated Drift only, an opportunity that passes the cap
\* check and the allocation still counts in trades_attempted and
\* order_counter, but the balance gate is not run, no order is placed on
\* either venue, the result is success = false, and active_orders is empty
\* in every reachable state.
C28_SimulatedDriftPlacesNothing ==
  drift_devnet =>
    /\ active_orders = <<>>
    /\ trades_successful = 0
    /\ order_counter = trades_attempted
    /\ \A r \in Observed :
         /\ Orders(r) = {}
         /\ ~r.balance_check.made
         /\ ~r.result.success
         /\ Planned(r) =>
              /\ r.attempts = 1
              /\ r.result.returned
              /\ r.result.error = "Real Drift not available"

\* C28 witness: with the simulated Drift, two opportunities went through the
\* allocation and were counted as attempts.
C28_AttemptsWithoutOrders ==
  /\ drift_devnet
  /\ last.result.error = "Real Drift not available"
  /\ Called(last, "get_collateral_balance")
  /\ trades_attempted = 2
  /\ order_counter = 2

====
